---- MODULE Spec2Model ----
(***************************************************************************)
(* Appointment scheduling and access-control engine of the Virtual-Gyn     *)
(* backend: the appointments router (routes/appointments.js, kept as       *)
(* src/unnamed/part_002), the patients router (routes/patients.js) and the *)
(* authentication / role / ownership gates (middleware/auth.js).           *)
(*                                                                         *)
(* The datastore is the hosted relational store reached through the query  *)
(* builder; a table is a function from row id to row, a row is a record.   *)
(* Times of day are minutes since midnight (10:00 = 600).                  *)
(***************************************************************************)
EXTENDS Integers, FiniteSets, Sequences, TLC

VARIABLES
    appts,      \* appointments table: id -> row
    nextId,     \* next id the datastore assigns to an inserted appointment
    users,      \* users table (stored profiles): user id -> [role, isActive]
    proc,       \* create requests suspended between their two datastore calls
    res,        \* the appointment request served by the last step, its response
    patients,   \* patients table: id -> row
    pres,       \* the patient request served by the last step, its response
    gres,       \* the request last taken through a route's gates, its outcome
    pager,      \* a client paging through a list endpoint
    auth,       \* users of the auth provider: user id -> [email, password]
    ares        \* the register or login request served by the last step, its response

vars == <<appts, nextId, users, proc, res, patients, pres, gres, pager, auth, ares>>

----------------------------------------------------------------------------
(* Bounds *)

MaxAppts == 2           \* appointments the datastore accepts in a run

----------------------------------------------------------------------------
(* Enumerations and field constraints of the validators *)

Statuses == {"scheduled", "confirmed", "in-progress", "completed", "cancelled", "no-show"}

MinDuration == 15
MaxDuration == 240

Absent == "absent"      \* req.user of a request that carries no principal

\* new Date().toISOString(): the time of the request being served, later than
\* Before, the time the rows of the initial state were written.
Now == "now"
Before == "before"

\* Object spread `{ ...a, k: v }`: the later keys (b) win over the earlier (a).
Spread(a, b) == b @@ a

Has(body, f) == f \in DOMAIN body

\* validateAppointmentData: required doctorId, appointmentDate, HH:MM time,
\* integer duration in [15, 240]  (patientId, type, reason, notes carry no
\* scheduling rule and are not part of the rows of this model).
validateAppointmentData(body) ==
    /\ Has(body, "doctorId") /\ Has(body, "appointmentDate")
    /\ Has(body, "appointmentTime") /\ body.appointmentTime \in 0..1439
    /\ Has(body, "duration")
    /\ body.duration >= MinDuration /\ body.duration <= MaxDuration

\* An update validator that does not bound the duration.
validateAppointmentUpdateAnyDuration(body) ==
    /\ Has(body, "appointmentTime") => body.appointmentTime \in 0..1439
    /\ Has(body, "status") => body.status \in Statuses

\* validateAppointmentUpdate: every field optional, checked when present.
validateAppointmentUpdate(body) ==
    /\ Has(body, "appointmentTime") => body.appointmentTime \in 0..1439
    /\ Has(body, "duration") =>
          (body.duration >= MinDuration /\ body.duration <= MaxDuration)
    /\ Has(body, "status") => body.status \in Statuses

----------------------------------------------------------------------------
(* Role gate *)

DoctorRoles == {"doctor", "admin"}
AdminRoles == {"admin"}

\* A role gate that admits every caller with a stored profile.
requireRoleAnyProfile(roles, reqUser, profiles) ==
    IF reqUser = Absent THEN 401
    ELSE IF reqUser \notin DOMAIN profiles THEN 403
    ELSE 0

\* requireRole(roles): 0 when the request goes on to the handler, else the
\* status code of the response the gate sends.  reqUser is req.user.
requireRole(roles, reqUser, profiles) ==
    IF reqUser = Absent THEN 401
    ELSE IF reqUser \notin DOMAIN profiles THEN 403
    ELSE IF profiles[reqUser].role \notin roles THEN 403
    ELSE 0

requireDoctor(reqUser, profiles) == requireRole(DoctorRoles, reqUser, profiles)

----------------------------------------------------------------------------
(* Appointments router *)

\* A conflict query that matches every active status (whole-day blocking).
ConflictMatchAnyActive(row, appointmentData) ==
    /\ row.doctorId = appointmentData.doctorId
    /\ row.appointmentDate = appointmentData.appointmentDate
    /\ row.status \in {"scheduled", "confirmed", "in-progress"}

\* The conflict query of router.post('/'): the filters of one query chain are
\* conjoined by the datastore, the .or(...) group being one of the conjuncts:
\*   .eq(doctorId) .eq(appointmentDate) .eq(status,'scheduled')
\*   .or(status.eq.confirmed, status.eq.in-progress)
ConflictMatch(row, appointmentData) ==
    /\ row.doctorId = appointmentData.doctorId
    /\ row.appointmentDate = appointmentData.appointmentDate
    /\ row.status = "scheduled"
    /\ (row.status = "confirmed" \/ row.status = "in-progress")

conflicts(table, appointmentData) ==
    {id \in DOMAIN table : ConflictMatch(table[id], appointmentData)}

\* The spread written last: { createdBy, status, ...req.body }.
appointmentDataBodyLast(body, userId) ==
    Spread([createdBy |-> userId, status |-> "scheduled",
            createdAt |-> Now, updatedAt |-> Now], body)

\* appointmentData = { ...req.body, createdBy: req.userId, status: 'scheduled',
\*                     createdAt: now, updatedAt: now }
appointmentData(body, userId) ==
    Spread(body, [createdBy |-> userId, status |-> "scheduled",
                  createdAt |-> Now, updatedAt |-> Now])

\* .insert(appointmentData): the datastore assigns the id.
InsertRow(table, id, data) == [i \in DOMAIN table \cup {id} |->
                                  IF i = id THEN data ELSE table[i]]

\* .update(updates).eq('id', id): the named columns of the one row change.
UpdateRow(table, id, updates) == [table EXCEPT ![id] = Spread(table[id], updates)]

DeleteRow(table, id) == [i \in DOMAIN table \ {id} |-> table[i]]

Response(op, code, userId, id, body) ==
    [op |-> op, code |-> code, userId |-> userId, id |-> id, body |-> body]

NoBody == <<>>

\* What a datastore call comes back with: its rows, or an error.
DbOk == "ok"
DbError == "error"
DbOutcomes == {DbOk, DbError}

\* The response of a request one of whose datastore calls returned an error.
FailedResponse(op, code, userId, id, body, call) ==
    Spread(Response(op, code, userId, id, body), [failed |-> call])

\* An insert that writes its row although it reports an error.
InsertResultWritesOnError(table, id, data, outcome) == InsertRow(table, id, data)

\* .insert(data).select().single() under the outcome of the call.
InsertResult(table, id, data, outcome) ==
    IF outcome = DbError THEN table ELSE InsertRow(table, id, data)

\* router.post('/', requireDoctor, validateAppointmentData, handler), served
\* without another request in between its datastore calls; dbConflicts and
\* dbInsert are the outcomes of the conflict query and of the insert.
CreateWith(u, body, dbConflicts, dbInsert) ==
    LET gate == requireDoctor(u, users)
        data == appointmentData(body, u)
    IN  /\ UNCHANGED <<users, proc, patients, pres, gres, pager, auth, ares>>
        /\ IF gate # 0
           THEN /\ res' = Response("create", gate, u, 0, body)
                /\ UNCHANGED <<appts, nextId>>
           ELSE IF ~validateAppointmentData(body)
           THEN /\ res' = Response("create", 400, u, 0, body)
                /\ UNCHANGED <<appts, nextId>>
           ELSE IF dbConflicts = DbError
           THEN /\ res' = FailedResponse("create", 400, u, 0, body, "conflicts")
                /\ UNCHANGED <<appts, nextId>>
           ELSE IF conflicts(appts, data) # {}
           THEN /\ res' = Response("create", 400, u, 0, body)
                /\ UNCHANGED <<appts, nextId>>
           ELSE /\ nextId <= MaxAppts
                /\ appts' = InsertResult(appts, nextId, data, dbInsert)
                /\ IF dbInsert = DbError
                   THEN /\ res' = FailedResponse("create", 400, u, 0, body, "insert")
                        /\ UNCHANGED nextId
                   ELSE /\ nextId' = nextId + 1
                        /\ res' = Response("create", 201, u, nextId, body)

Create(u, body) == CreateWith(u, body, DbOk, DbOk)

\* router.put('/:appointmentId', requireDoctor, validateAppointmentUpdate, handler)
UpdateWith(u, id, body, db) ==
    LET gate == requireDoctor(u, users)
        updates == Spread(body, [updatedAt |-> Now])
    IN  /\ UNCHANGED <<users, proc, nextId, patients, pres, gres, pager, auth, ares>>
        /\ IF gate # 0
           THEN /\ res' = Response("update", gate, u, id, body)
                /\ UNCHANGED appts
           ELSE IF ~validateAppointmentUpdate(body)
           THEN /\ res' = Response("update", 400, u, id, body)
                /\ UNCHANGED appts
           ELSE IF db = DbError
           THEN /\ res' = FailedResponse("update", 404, u, id, body, "update")
                /\ UNCHANGED appts
           ELSE IF id \notin DOMAIN appts
           THEN /\ res' = Response("update", 404, u, id, body)
                /\ UNCHANGED appts
           ELSE /\ appts' = UpdateRow(appts, id, updates)
                /\ res' = Response("update", 200, u, id, body)

Update(u, id, body) == UpdateWith(u, id, body, DbOk)

\* router.patch('/:appointmentId/status', requireDoctor, handler)
UpdateStatusWith(u, id, status, db) ==
    LET gate == requireDoctor(u, users)
        body == [status |-> status]
    IN  /\ UNCHANGED <<users, proc, nextId, patients, pres, gres, pager, auth, ares>>
        /\ IF gate # 0
           THEN /\ res' = Response("status", gate, u, id, body)
                /\ UNCHANGED appts
           ELSE IF status \notin Statuses
           THEN /\ res' = Response("status", 400, u, id, body)
                /\ UNCHANGED appts
           ELSE IF db = DbError
           THEN /\ res' = FailedResponse("status", 404, u, id, body, "update")
                /\ UNCHANGED appts
           ELSE IF id \notin DOMAIN appts
           THEN /\ res' = Response("status", 404, u, id, body)
                /\ UNCHANGED appts
           ELSE /\ appts' = UpdateRow(appts, id, [status |-> status, updatedAt |-> Now])
                /\ res' = Response("status", 200, u, id, body)

UpdateStatus(u, id, status) == UpdateStatusWith(u, id, status, DbOk)

\* router.delete('/:appointmentId', requireDoctor, handler)
DeleteWith(u, id, db) ==
    LET gate == requireDoctor(u, users)
    IN  /\ UNCHANGED <<users, proc, nextId, patients, pres, gres, pager, auth, ares>>
        /\ IF gate # 0
           THEN /\ res' = Response("delete", gate, u, id, NoBody)
                /\ UNCHANGED appts
           ELSE IF db = DbError
           THEN /\ res' = FailedResponse("delete", 404, u, id, NoBody, "delete")
                /\ UNCHANGED appts
           ELSE IF id \notin DOMAIN appts
           THEN /\ res' = Response("delete", 404, u, id, NoBody)
                /\ UNCHANGED appts
           ELSE /\ appts' = DeleteRow(appts, id)
                /\ res' = Response("delete", 200, u, id, NoBody)

Delete(u, id) == DeleteWith(u, id, DbOk)

----------------------------------------------------------------------------
(* router.post('/') as its two datastore round trips.  A request is suspended
   at each await, so other requests run between its conflict query and its
   insert.  proc[p] keeps what the suspended handler holds in its locals;
   readAt is the table version the conflict query read. *)

CreateCheck(p, u, body) ==
    LET gate == requireDoctor(u, users)
        data == appointmentData(body, u)
    IN  /\ p \notin DOMAIN proc
        /\ UNCHANGED <<users, appts, nextId, patients, pres, gres, pager, auth, ares>>
        /\ IF gate # 0
           THEN /\ proc' = (p :> [pc |-> "done", userId |-> u, data |-> data,
                                  conflicts |-> {}, readAt |-> nextId,
                                  code |-> gate, id |-> 0]) @@ proc
                /\ res' = Response("create", gate, u, 0, body)
           ELSE IF ~validateAppointmentData(body)
           THEN /\ proc' = (p :> [pc |-> "done", userId |-> u, data |-> data,
                                  conflicts |-> {}, readAt |-> nextId,
                                  code |-> 400, id |-> 0]) @@ proc
                /\ res' = Response("create", 400, u, 0, body)
           ELSE /\ proc' = (p :> [pc |-> "insert", userId |-> u, data |-> data,
                                  conflicts |-> conflicts(appts, data),
                                  readAt |-> nextId, code |-> 0, id |-> 0]) @@ proc
                /\ UNCHANGED res

CreateInsert(p) ==
    /\ p \in DOMAIN proc
    /\ proc[p].pc = "insert"
    /\ UNCHANGED <<users, patients, pres, gres, pager, auth, ares>>
    /\ IF proc[p].conflicts # {}
       THEN /\ proc' = [proc EXCEPT ![p].pc = "done", ![p].code = 400]
            /\ res' = Response("create", 400, proc[p].userId, 0, proc[p].data)
            /\ UNCHANGED <<appts, nextId>>
       ELSE /\ nextId <= MaxAppts
            /\ appts' = InsertRow(appts, nextId, proc[p].data)
            /\ nextId' = nextId + 1
            /\ proc' = [proc EXCEPT ![p].pc = "done", ![p].code = 201, ![p].id = nextId]
            /\ res' = Response("create", 201, proc[p].userId, nextId, proc[p].data)

----------------------------------------------------------------------------
(* Authentication and ownership gates; patients router *)

Undefined == "undefined"    \* a request property no middleware has set

NoToken == [kind |-> "none"]
BadToken == [kind |-> "invalid"]
Token(u) == [kind |-> "valid", userId |-> u]

\* authenticateToken: sets req.user and req.userId, or answers 401 / 403.
\* authUsers are the identities the auth provider resolves a token to.
authenticateToken(req, cred, authUsers) ==
    IF cred.kind = "none" THEN [code |-> 401, req |-> req]
    ELSE IF cred.kind = "invalid" THEN [code |-> 403, req |-> req]
    ELSE IF cred.userId \notin authUsers THEN [code |-> 401, req |-> req]
    ELSE [code |-> 0, req |-> [req EXCEPT !.user = cred.userId, !.userId = cred.userId]]

\* requireRole(roles) as a middleware: on success it sets req.userRole.
requireRoleMw(roles, req, profiles) ==
    LET code == requireRole(roles, req.user, profiles)
    IN  IF code # 0 THEN [code |-> code, req |-> req]
        ELSE [code |-> 0, req |-> [req EXCEPT !.userRole = profiles[req.user].role]]

\* The ownership test written as "everyone but a foreign patient passes".
canAccessPatientDenyList(req) ==
    IF req.patientId = Undefined THEN [code |-> 400, req |-> req]
    ELSE IF req.userRole # "patient" \/ req.userId = req.patientId
         THEN [code |-> 0, req |-> req]
    ELSE [code |-> 403, req |-> req]

\* canAccessPatient: reads req.userRole and req.userId.
canAccessPatient(req) ==
    IF req.patientId = Undefined THEN [code |-> 400, req |-> req]
    ELSE IF req.userRole = "admin" \/ req.userRole = "doctor" THEN [code |-> 0, req |-> req]
    ELSE IF req.userRole = "patient" /\ req.userId = req.patientId
         THEN [code |-> 0, req |-> req]
    ELSE [code |-> 403, req |-> req]

\* The middleware every router is mounted behind.
MountChain == <<"authenticateToken">>

\* The middleware each patients route names before its handler.
PatientRouteChain ==
    [get |-> <<"canAccessPatient">>,
     put |-> <<"canAccessPatient">>,
     records |-> <<"canAccessPatient">>,
     appointments |-> <<"canAccessPatient">>,
     stats |-> <<"canAccessPatient">>,
     delete |-> <<"requireDoctor">>]

ApplyMiddleware(mw, req, cred, profiles) ==
    IF mw = "authenticateToken" THEN authenticateToken(req, cred, DOMAIN auth)
    ELSE IF mw = "requireDoctor" THEN requireRoleMw(DoctorRoles, req, profiles)
    ELSE IF mw = "requireAdmin" THEN requireRoleMw(AdminRoles, req, profiles)
    ELSE canAccessPatient(req)

\* Express runs the chain in order; a middleware that answers ends it.
RECURSIVE RunChain(_, _, _, _)
RunChain(chain, req, cred, profiles) ==
    IF chain = <<>> THEN [code |-> 0, req |-> req]
    ELSE LET out == ApplyMiddleware(Head(chain), req, cred, profiles)
         IN  IF out.code # 0 THEN out
             ELSE RunChain(Tail(chain), out.req, cred, profiles)

\* validatePatientUpdate: firstName, when present, is not empty.
validatePatientUpdate(body) == Has(body, "firstName") => body.firstName # ""

PatientResponse(route, cred, patientId, gate, code, handler, req) ==
    [route |-> route, cred |-> cred, patientId |-> patientId, gate |-> gate,
     code |-> code, handler |-> handler, user |-> req.user, userRole |-> req.userRole]

\* One request to a /patients/:patientId route: mount chain, route chain,
\* then the handler's one datastore call.
PatientRequest(route, cred, patientId, body) ==
    LET req0 == [user |-> Absent, userId |-> Undefined, userRole |-> Undefined,
                 patientId |-> patientId]
        out == RunChain(MountChain \o PatientRouteChain[route], req0, cred, users)
    IN  /\ UNCHANGED <<appts, nextId, users, proc, res, gres, pager, auth, ares>>
        /\ IF out.code # 0
           THEN /\ pres' = PatientResponse(route, cred, patientId, out.code, out.code,
                                           FALSE, out.req)
                /\ UNCHANGED patients
           ELSE IF route = "put" /\ ~validatePatientUpdate(body)
           THEN /\ pres' = PatientResponse(route, cred, patientId, 0, 400, FALSE, out.req)
                /\ UNCHANGED patients
           ELSE IF patientId \notin DOMAIN patients
           THEN /\ pres' = PatientResponse(route, cred, patientId, 0, 404, TRUE, out.req)
                /\ UNCHANGED patients
           ELSE /\ pres' = PatientResponse(route, cred, patientId, 0, 200, TRUE, out.req)
                /\ patients' =
                     IF route = "put"
                     THEN [patients EXCEPT ![patientId] =
                              Spread(patients[patientId],
                                     Spread(body, [updatedAt |-> Now]))]
                     ELSE IF route = "delete"
                     THEN [patients EXCEPT ![patientId] =
                              Spread(patients[patientId],
                                     [isActive |-> FALSE, deletedAt |-> Now,
                                      updatedAt |-> Now])]
                     ELSE patients

----------------------------------------------------------------------------
(* Initial state: an empty appointments table, the stored profiles, and one
   patient row per patient user (a patient's row id is the user's id). *)

StoredUsers ==
    [doc1 |-> [role |-> "doctor", isActive |-> TRUE, email |-> "doc1@vg"],
     adm1 |-> [role |-> "admin", isActive |-> TRUE, email |-> "adm1@vg"],
     pat1 |-> [role |-> "patient", isActive |-> TRUE, email |-> "pat1@vg"],
     pat2 |-> [role |-> "patient", isActive |-> TRUE, email |-> "pat2@vg"]]

\* A password is the sequence of its characters.
StoredPassword == <<"s", "e", "c", "r", "e", "t", "p", "w">>

\* Every stored profile has its user at the auth provider.
StoredAuth ==
    [u \in DOMAIN StoredUsers |->
        [email |-> StoredUsers[u].email, password |-> StoredPassword]]

StoredPatients ==
    [pat1 |-> [firstName |-> "Ann", isActive |-> TRUE,
               createdAt |-> Before, updatedAt |-> Before],
     pat2 |-> [firstName |-> "Bea", isActive |-> TRUE,
               createdAt |-> Before, updatedAt |-> Before]]

Init ==
    /\ appts = <<>>
    /\ nextId = 1
    /\ users = StoredUsers
    /\ proc = <<>>
    /\ res = Response("none", 0, Absent, 0, NoBody)
    /\ patients = StoredPatients
    /\ pres = [route |-> "none"]
    /\ gres = [route |-> "none"]
    /\ pager = [phase |-> "none"]
    /\ auth = StoredAuth
    /\ ares = [op |-> "none"]

Ids == 1..MaxAppts

Slot(d, dt, t, n) ==
    [doctorId |-> d, appointmentDate |-> dt, appointmentTime |-> t, duration |-> n]

----------------------------------------------------------------------------
(* Spec: scheduling.  Requests are served one at a time; doctors, times and
   the active / inactive status of the rows vary. *)

Doctors == {"D1", "D2"}
Dates == {"2024-03-01"}
Times == {600, 615, 630}
Durations == {30}

SchedCallers == {"doc1", "pat1"}

SchedCreateBodies ==
    {Slot(d, dt, t, n) : d \in Doctors, dt \in Dates, t \in Times, n \in Durations}
    \cup {Slot("D1", "2024-03-01", 600, 14)}

SchedUpdateBodies ==
    {[doctorId |-> d] : d \in Doctors}
    \cup {[appointmentDate |-> dt] : dt \in Dates}
    \cup {[appointmentTime |-> t] : t \in Times}
    \cup {[duration |-> n] : n \in Durations \cup {14}}

SchedStatuses == {"scheduled", "cancelled", "archived"}

SchedCreate == \E u \in SchedCallers, b \in SchedCreateBodies : Create(u, b)
SchedUpdate == \E u \in SchedCallers, id \in Ids, b \in SchedUpdateBodies : Update(u, id, b)
SchedStatus == \E u \in SchedCallers, id \in Ids, s \in SchedStatuses : UpdateStatus(u, id, s)
SchedDelete == \E u \in SchedCallers, id \in Ids : Delete(u, id)

Next == SchedCreate \/ SchedUpdate \/ SchedStatus \/ SchedDelete

Spec == Init /\ [][Next]_vars

----------------------------------------------------------------------------
(* SpecLife: appointment lifecycle.  One slot; every status, and request
   bodies that carry status and createdBy of their own. *)

LifeCallers == {"doc1", "adm1", "pat1"}

LifeSlot == Slot("D1", "2024-03-01", 600, 30)

LifeCreateBodies ==
    {LifeSlot,
     Spread(LifeSlot, [status |-> "completed"]),
     Spread(LifeSlot, [createdBy |-> "pat1"]),
     Spread(LifeSlot, [status |-> "confirmed", createdBy |-> "pat1"])}

LifeStatuses == Statuses \cup {"archived"}

LifeUpdateBodies == {[status |-> s] : s \in LifeStatuses}

LifeCreate == \E u \in LifeCallers, b \in LifeCreateBodies : Create(u, b)
LifeUpdate == \E u \in LifeCallers, id \in Ids, b \in LifeUpdateBodies : Update(u, id, b)
LifeStatus == \E u \in LifeCallers, id \in Ids, s \in LifeStatuses : UpdateStatus(u, id, s)
LifeDelete == \E u \in LifeCallers, id \in Ids : Delete(u, id)

NextLife == LifeCreate \/ LifeUpdate \/ LifeStatus \/ LifeDelete

SpecLife == Init /\ [][NextLife]_vars

----------------------------------------------------------------------------
(* SpecRace: two create requests for one doctor and date, each served as its
   two datastore round trips, in every interleaving. *)

RaceProcs == {1, 2}

RaceCallers == {"doc1", "pat1"}

RaceBodies ==
    {Slot("D1", "2024-03-01", t, 30) : t \in Times}
    \cup {Slot("D1", "2024-03-01", 600, 14)}

RaceCheck == \E p \in RaceProcs, u \in RaceCallers, b \in RaceBodies : CreateCheck(p, u, b)
RaceInsert == \E p \in RaceProcs : CreateInsert(p)

NextRace == RaceCheck \/ RaceInsert

SpecRace == Init /\ [][NextRace]_vars

----------------------------------------------------------------------------
(* SpecGate: requests to the patients routes with every kind of credential. *)

GatedRoutes == {"get", "put", "records", "appointments", "stats"}

Credentials == {NoToken, BadToken} \cup {Token(u) : u \in DOMAIN StoredUsers \cup {"gone1"}}

PatientIds == {"pat1", "pat2", "pat9"}

PatientBodies == {[firstName |-> "Cyd"], [firstName |-> ""]}

GateRequest ==
    \E route \in GatedRoutes \cup {"delete"}, cred \in Credentials,
       id \in PatientIds, b \in PatientBodies :
        PatientRequest(route, cred, id, IF route = "put" THEN b ELSE NoBody)

NextGate == GateRequest

SpecGate == Init /\ [][NextGate]_vars

----------------------------------------------------------------------------
(* Route gates of the routers, optionalAuth, and changes of stored profiles *)

\* A token as login signs it: jwt.sign({ userId, email, role }).
IssuedToken(u, role) == [kind |-> "valid", userId |-> u, role |-> role]

\* The middleware each route names before its handler.
RouteChain ==
    [apptList |-> <<"requireDoctor">>,
     apptDelete |-> <<"requireDoctor">>,
     recordList |-> <<"requireDoctor">>,
     clinicCreate |-> <<"requireAdmin">>,
     doctorDelete |-> <<"requireAdmin">>,
     doctorAppointments |-> <<>>,
     doctorSchedule |-> <<>>,
     doctorRecords |-> <<>>,
     clinicAppointments |-> <<>>,
     patientGet |-> <<"canAccessPatient">>,
     patientRecords |-> <<"canAccessPatient">>]

\* optionalAuth answering 401 when the user lookup fails, as authenticateToken does.
optionalAuthStrict(req, cred, lookup, authUsers) ==
    IF cred.kind = "none" THEN [code |-> 0, next |-> 1, req |-> req]
    ELSE IF cred.kind = "invalid" THEN [code |-> 0, next |-> 1, req |-> req]
    ELSE IF lookup = "ok" /\ cred.userId \in authUsers
         THEN [code |-> 0, next |-> 1,
               req |-> [req EXCEPT !.user = cred.userId, !.userId = cred.userId]]
    ELSE [code |-> 401, next |-> 0, req |-> req]

\* optionalAuth: code is the status of an error response it sends (0: none),
\* next the number of times it calls next().  lookup is what
\* supabase.auth.getUser does: "ok", "error" (returns an error) or "throws".
optionalAuth(req, cred, lookup, authUsers) ==
    IF cred.kind = "none" THEN [code |-> 0, next |-> 1, req |-> req]
    ELSE IF cred.kind = "invalid" THEN [code |-> 0, next |-> 1, req |-> req]
    ELSE IF lookup = "ok" /\ cred.userId \in authUsers
         THEN [code |-> 0, next |-> 1,
               req |-> [req EXCEPT !.user = cred.userId, !.userId = cred.userId]]
    ELSE [code |-> 0, next |-> 1, req |-> req]

\* The stored profile of a credential's user while the request is served.
NoProfile == [role |-> Undefined, isActive |-> FALSE]
ProfileOf(cred, profiles) ==
    IF cred.kind = "valid" /\ cred.userId \in DOMAIN profiles
    THEN profiles[cred.userId] ELSE NoProfile

GateResponse(route, cred, patientId, lookup, code, next, handler, req, profile) ==
    [route |-> route, cred |-> cred, patientId |-> patientId, lookup |-> lookup,
     code |-> code, next |-> next, handler |-> handler,
     user |-> req.user, userRole |-> req.userRole, profile |-> profile]

NewRequest(patientId) ==
    [user |-> Absent, userId |-> Undefined, userRole |-> Undefined, patientId |-> patientId]

\* One request to a route: the mount chain, then the route's chain; the
\* handler runs, and reads or writes the store, when every middleware called next().
RouteRequest(route, cred, patientId) ==
    LET out == RunChain(MountChain \o RouteChain[route], NewRequest(patientId), cred, users)
    IN  /\ gres' = GateResponse(route, cred, patientId, "ok", out.code,
                                IF out.code = 0 THEN 1 ELSE 0, out.code = 0, out.req,
                                ProfileOf(cred, users))
        /\ UNCHANGED <<appts, nextId, users, proc, res, patients, pres, pager, auth, ares>>

\* One request through optionalAuth and on to the next handler.
OptionalRequest(cred, lookup) ==
    LET out == optionalAuth(NewRequest(Undefined), cred, lookup, DOMAIN auth)
    IN  /\ gres' = GateResponse("optional", cred, Undefined, lookup, out.code,
                                out.next, out.next > 0, out.req, ProfileOf(cred, users))
        /\ UNCHANGED <<appts, nextId, users, proc, res, patients, pres, pager, auth, ares>>

\* The stored profile of a user gets another role.
SetRole(u, role) ==
    /\ users[u].role # role
    /\ users' = [users EXCEPT ![u].role = role]
    /\ UNCHANGED <<appts, nextId, proc, res, patients, pres, gres, pager, auth, ares>>

\* The stored profile of a user is deactivated.
Deactivate(u) ==
    /\ users[u].isActive
    /\ users' = [users EXCEPT ![u].isActive = FALSE]
    /\ UNCHANGED <<appts, nextId, proc, res, patients, pres, gres, pager, auth, ares>>

----------------------------------------------------------------------------
(* SpecAuth: requests with tokens issued at the start, while stored roles
   change and profiles are deactivated. *)

Roles == {"patient", "doctor", "admin"}

AuthRoutes == DOMAIN RouteChain

AuthCredentials ==
    {NoToken, BadToken, IssuedToken("gone1", "patient")}
    \cup {IssuedToken(u, StoredUsers[u].role) : u \in {"doc1", "adm1", "pat1"}}

AuthPatientIds == {"pat1", "pat2"}

Lookups == {"ok", "error", "throws"}

ChangedUsers == {"doc1", "pat1"}

AuthRequest ==
    \E route \in AuthRoutes, cred \in AuthCredentials, id \in AuthPatientIds :
        RouteRequest(route, cred, id)
AuthOptional == \E cred \in AuthCredentials, lookup \in Lookups : OptionalRequest(cred, lookup)
AuthSetRole == \E u \in ChangedUsers, role \in Roles : SetRole(u, role)
AuthDeactivate == \E u \in ChangedUsers : Deactivate(u)

NextAuth == AuthRequest \/ AuthOptional \/ AuthSetRole \/ AuthDeactivate

SpecAuth == Init /\ [][NextAuth]_vars

----------------------------------------------------------------------------
(* router.get('/') of the appointments router: filtering, sorting, paging.
   The patients router's list has the same arithmetic. *)

MaxRows == 4

DefaultPage == 1
DefaultLimit == 20
DefaultSortBy == "appointmentDate"

\* JavaScript values of the paging arithmetic: a number, or a string of
\* decimal digits as req.query holds a parameter that was given.
Num(n) == [type |-> "number", num |-> n]
Str(ds) == [type |-> "string", digits |-> ds]

RECURSIVE DigitsValue(_)
DigitsValue(ds) ==
    IF ds = <<>> THEN 0
    ELSE 10 * DigitsValue(SubSeq(ds, 1, Len(ds) - 1)) + ds[Len(ds)]

RECURSIVE ToDigits(_)
ToDigits(n) == IF n < 10 THEN <<n>> ELSE ToDigits(n \div 10) \o <<n % 10>>

\* ToNumber and ToString of the language, on these values.
ToNumber(v) == IF v.type = "number" THEN v.num ELSE DigitsValue(v.digits)
ToStr(v) == IF v.type = "string" THEN v.digits ELSE ToDigits(v.num)

\* a + b: numeric addition of two numbers, else concatenation of the strings.
Plus(a, b) ==
    IF a.type = "number" /\ b.type = "number" THEN Num(a.num + b.num)
    ELSE Str(ToStr(a) \o ToStr(b))

\* Math.ceil(a / b) for b > 0.
Ceil(a, b) == (a + b - 1) \div b

\* const { name = default } = req.query
Param(query, name, default) ==
    IF Has(query, name) THEN Str(query[name]) ELSE Num(default)

\* Columns of the appointments table.
Columns ==
    {"id", "patientId", "doctorId", "appointmentDate", "appointmentTime", "duration",
     "type", "status", "createdBy", "createdAt", "updatedAt"}

\* The rows that match a request's filters, in the order of its sort.
Rows(n) == [i \in 1..n |-> i]

\* select('*', { count: 'exact' }).order(column).range(from, to): rows
\* from..to, counted from 0 and both included, or an error for a column the
\* table does not have.
SelectRange(rows, column, from, to) ==
    IF column \notin Columns THEN [error |-> TRUE, data |-> <<>>, count |-> 0]
    ELSE [error |-> FALSE,
          data |-> SubSeq(rows, from + 1, IF to + 1 < Len(rows) THEN to + 1 ELSE Len(rows)),
          count |-> Len(rows)]

\* The handler of router.get('/'): calls is the number of datastore calls it
\* made, ordered the column name it passed to the datastore, db the outcome
\* of the call for a query the datastore can run.
ListHandlerWith(query, rows, db) ==
    LET page == Param(query, "page", DefaultPage)
        limit == Param(query, "limit", DefaultLimit)
        sortBy == IF Has(query, "sortBy") THEN query.sortBy ELSE DefaultSortBy
        offset == (ToNumber(page) - 1) * ToNumber(limit)
        ran == SelectRange(rows, sortBy, offset,
                           ToNumber(Plus(Num(offset), limit)) - 1)
        out == IF db = DbError THEN [error |-> TRUE, data |-> <<>>, count |-> 0] ELSE ran
        totalPages == Ceil(out.count, ToNumber(limit))
    IN  IF out.error
        THEN [code |-> 400, calls |-> 1, ordered |-> sortBy, items |-> <<>>]
        ELSE [code |-> 200, calls |-> 1, ordered |-> sortBy, items |-> out.data,
              currentPage |-> ToNumber(page),
              totalPages |-> totalPages,
              totalCount |-> out.count,
              limit |-> ToNumber(limit),
              hasNext |-> ToNumber(page) < totalPages,
              hasPrev |-> ToNumber(page) > 1]

ListHandler(query, rows) == ListHandlerWith(query, rows, DbOk)

\* The ids of a table in ascending order.
RECURSIVE IdSeq(_)
IdSeq(ids) ==
    IF ids = {} THEN <<>>
    ELSE LET m == CHOOSE i \in ids : \A j \in ids : i <= j
         IN  <<m>> \o IdSeq(ids \ {m})

\* router.get('/', requireDoctor, handler) as one request over the
\* appointments table.
List(u, query, db) ==
    LET gate == requireDoctor(u, users)
        resp == ListHandlerWith(query, IdSeq(DOMAIN appts), db)
    IN  /\ UNCHANGED <<appts, nextId, users, proc, patients, pres, gres, pager, auth, ares>>
        /\ res' = IF gate # 0 THEN Response("list", gate, u, 0, query)
                  ELSE IF db = DbError
                  THEN FailedResponse("list", resp.code, u, 0, query, "list")
                  ELSE Response("list", resp.code, u, 0, query)

\* router.get('/', requireDoctor, handler): the first request of a client
\* that goes on to read every page.
ListFirst(u, query) ==
    LET gate == requireDoctor(u, users)
        resp == ListHandler(query, pager.rows)
    IN  /\ pager.phase = "idle"
        /\ pager' =
             IF gate # 0
             THEN [phase |-> "denied", rows |-> pager.rows, caller |-> u, query |-> query,
                   last |-> [code |-> gate, calls |-> 0, items |-> <<>>]]
             ELSE [phase |-> IF resp.code # 200 THEN "failed"
                             ELSE IF resp.totalPages <= 1 THEN "done" ELSE "walking",
                   rows |-> pager.rows, caller |-> u, query |-> query,
                   page |-> 1, sum |-> Len(resp.items), last |-> resp]
        /\ UNCHANGED <<appts, nextId, users, proc, res, patients, pres, gres, auth, ares>>

\* The client asks for the page after the last one, up to totalPages.
ListNextPage ==
    /\ pager.phase = "walking"
    /\ LET query == Spread(pager.query, [page |-> ToDigits(pager.page + 1)])
           gate == requireDoctor(pager.caller, users)
           resp == ListHandler(query, pager.rows)
       IN  pager' =
             IF gate # 0
             THEN [pager EXCEPT !.phase = "denied",
                                !.last = [code |-> gate, calls |-> 0, items |-> <<>>]]
             ELSE [pager EXCEPT !.phase = IF resp.code # 200 THEN "failed"
                                          ELSE IF pager.page + 1 >= resp.totalPages
                                               THEN "done" ELSE "walking",
                                !.query = query,
                                !.page = pager.page + 1,
                                !.sum = pager.sum + Len(resp.items),
                                !.last = resp]
    /\ UNCHANGED <<appts, nextId, users, proc, res, patients, pres, gres, auth, ares>>

----------------------------------------------------------------------------
(* router.get('/today/schedule') and router.get('/upcoming/schedule') *)

DefaultDays == 7

\* Consecutive calendar days, in order; DayOf gives the order that the
\* datastore's gte / lte on a date column follow.
ScheduleDates == <<"2024-03-01", "2024-03-02", "2024-03-03">>
DayOf(date) == CHOOSE i \in 1..Len(ScheduleDates) : ScheduleDates[i] = date

\* The orders in which the datastore may return the rows ids of a table
\* under .order(...): every arrangement in which the order holds between
\* neighbours.
\* .order('appointmentTime', { ascending: true })
TimeLeq(a, b) == a.appointmentTime <= b.appointmentTime

\* .order('appointmentDate', ...).order('appointmentTime', ...)
DateTimeLeq(a, b) ==
    \/ DayOf(a.appointmentDate) < DayOf(b.appointmentDate)
    \/ /\ a.appointmentDate = b.appointmentDate
       /\ a.appointmentTime <= b.appointmentTime

\* byDate: ordered by appointmentDate then appointmentTime, else by
\* appointmentTime alone.
OrderedBy(table, ids, byDate) ==
    {f \in [1..Cardinality(ids) -> ids] :
        /\ \A i, j \in 1..Cardinality(ids) : i # j => f[i] # f[j]
        /\ \A i \in 1..(Cardinality(ids) - 1) :
              IF byDate THEN DateTimeLeq(table[f[i]], table[f[i + 1]])
                        ELSE TimeLeq(table[f[i]], table[f[i + 1]])}

\* if (doctorId) query = query.eq('doctorId', doctorId)
DoctorFilter(row, query) == Has(query, "doctorId") => row.doctorId = query.doctorId

\* The rows the query of /today/schedule selects.
TodayMatch(table, today, query) ==
    {id \in DOMAIN table :
        /\ table[id].appointmentDate = today
        /\ table[id].status \in {"scheduled", "confirmed", "in-progress"}
        /\ DoctorFilter(table[id], query)}

\* The rows the query of /upcoming/schedule selects; days is parseInt(days).
UpcomingMatch(table, today, query) ==
    LET days == ToNumber(Param(query, "days", DefaultDays))
    IN  {id \in DOMAIN table :
            /\ DayOf(table[id].appointmentDate) >= DayOf(today)
            /\ DayOf(table[id].appointmentDate) <= DayOf(today) + days
            /\ table[id].status \in {"scheduled", "confirmed"}
            /\ DoctorFilter(table[id], query)}

ScheduleResponse(op, code, userId, today, query, data) ==
    Spread(Response(op, code, userId, 0, query), [today |-> today, data |-> data])

\* router.get('/today/schedule', requireDoctor, handler); today is the date
\* of the server's clock.
TodaySchedule(u, today, query, db) ==
    LET gate == requireDoctor(u, users)
    IN  /\ UNCHANGED <<appts, nextId, users, proc, patients, pres, gres, pager, auth, ares>>
        /\ IF gate # 0
           THEN res' = ScheduleResponse("today", gate, u, today, query, <<>>)
           ELSE IF db = DbError
           THEN res' = Spread(ScheduleResponse("today", 400, u, today, query, <<>>),
                              [failed |-> "list"])
           ELSE \E data \in OrderedBy(appts, TodayMatch(appts, today, query), FALSE) :
                    res' = ScheduleResponse("today", 200, u, today, query, data)

\* router.get('/upcoming/schedule', requireDoctor, handler)
UpcomingSchedule(u, today, query, db) ==
    LET gate == requireDoctor(u, users)
    IN  /\ UNCHANGED <<appts, nextId, users, proc, patients, pres, gres, pager, auth, ares>>
        /\ IF gate # 0
           THEN res' = ScheduleResponse("upcoming", gate, u, today, query, <<>>)
           ELSE IF db = DbError
           THEN res' = Spread(ScheduleResponse("upcoming", 400, u, today, query, <<>>),
                              [failed |-> "list"])
           ELSE \E data \in OrderedBy(appts, UpcomingMatch(appts, today, query), TRUE) :
                    res' = ScheduleResponse("upcoming", 200, u, today, query, data)

----------------------------------------------------------------------------
(* SpecSched: the schedule views over a table whose rows are created and
   change status meanwhile. *)

ViewCallers == {"doc1", "pat1"}

ViewCreateBodies ==
    {Slot("D1", ScheduleDates[i], t, 30) : i \in 1..Len(ScheduleDates), t \in {600, 660}}
    \cup {Slot("D2", ScheduleDates[1], 600, 30)}

ViewStatuses == {"in-progress", "completed"}

ViewTodays == {ScheduleDates[1], ScheduleDates[2]}

\* Every subset of the parameters doctorId and days.
ViewQueries ==
    {Spread(a, b) : a \in {<<>>, [doctorId |-> "D1"]}, b \in {<<>>, [days |-> <<1>>]}}

ViewCreate == \E b \in ViewCreateBodies : Create("doc1", b)
ViewStatus == \E id \in Ids, st \in ViewStatuses : UpdateStatus("doc1", id, st)
ViewToday ==
    \E u \in ViewCallers, today \in ViewTodays, query \in ViewQueries :
        TodaySchedule(u, today, query, DbOk)
ViewUpcoming ==
    \E u \in ViewCallers, today \in ViewTodays, query \in ViewQueries :
        UpcomingSchedule(u, today, query, DbOk)

NextSched == ViewCreate \/ ViewStatus \/ ViewToday \/ ViewUpcoming

SpecSched == Init /\ [][NextSched]_vars

----------------------------------------------------------------------------
(* SpecList: a client reads a list page by page over a table that does not
   change meanwhile. *)

\* The row count of the scenario "limit 20, 45 rows".
ScenarioRows == 2 * DefaultLimit + 5

RowCounts == 0..MaxRows \cup {ScenarioRows}

ListCallers == {"doc1", "pat1"}

ListLimits == {<<1>>, <<2>>, ToDigits(DefaultLimit)}

ListSortBys == {"createdAt", "secret"}

\* Every subset of the parameters page (first page), limit and sortBy.
ListQueries ==
    {Spread(Spread(a, b), c) :
        a \in {<<>>, [page |-> ToDigits(DefaultPage)]},
        b \in {<<>>} \cup {[limit |-> l] : l \in ListLimits},
        c \in {<<>>} \cup {[sortBy |-> f] : f \in ListSortBys}}

InitList ==
    /\ appts = <<>>
    /\ nextId = 1
    /\ users = StoredUsers
    /\ proc = <<>>
    /\ res = Response("none", 0, Absent, 0, NoBody)
    /\ patients = StoredPatients
    /\ pres = [route |-> "none"]
    /\ gres = [route |-> "none"]
    /\ auth = StoredAuth
    /\ ares = [op |-> "none"]
    /\ \E n \in RowCounts : pager = [phase |-> "idle", rows |-> Rows(n)]

ListStart == \E u \in ListCallers, query \in ListQueries : ListFirst(u, query)

NextList == ListStart \/ ListNextPage

SpecList == InitList /\ [][NextList]_vars

----------------------------------------------------------------------------
(* SpecEdge: durations at and beyond the limits, update bodies that carry
   fields the server owns, and datastore calls that return an error. *)

EdgeCallers == {"doc1", "pat1"}

EdgeDurations == {MinDuration - 1, MinDuration, MaxDuration, MaxDuration + 1}

EdgeCreateBodies == {Slot("D1", "2024-03-01", 600, n) : n \in EdgeDurations}

EdgeUpdateBodies ==
    {[duration |-> n] : n \in EdgeDurations}
    \cup {[createdBy |-> "pat1", createdAt |-> Before]}

EdgeStatuses == {"confirmed"}

EdgeCreate ==
    \E u \in EdgeCallers, b \in EdgeCreateBodies, dbConflicts \in DbOutcomes,
       dbInsert \in DbOutcomes :
        CreateWith(u, b, dbConflicts, dbInsert)
EdgeUpdate ==
    \E u \in EdgeCallers, id \in Ids, b \in EdgeUpdateBodies, db \in DbOutcomes :
        UpdateWith(u, id, b, db)
EdgeStatus ==
    \E u \in EdgeCallers, id \in Ids, st \in EdgeStatuses, db \in DbOutcomes :
        UpdateStatusWith(u, id, st, db)
EdgeDelete == \E u \in EdgeCallers, id \in Ids, db \in DbOutcomes : DeleteWith(u, id, db)
EdgeList == \E u \in EdgeCallers, db \in DbOutcomes : List(u, <<>>, db)

NextEdge == EdgeCreate \/ EdgeUpdate \/ EdgeStatus \/ EdgeDelete \/ EdgeList

SpecEdge == Init /\ [][NextEdge]_vars

----------------------------------------------------------------------------
(* SpecOrder: writing requests to the appointments and the patients routes,
   from callers that pass the gates and callers that do not. *)

OrderCallers == {"doc1", "pat1", Absent}

OrderCredentials == {NoToken, Token("doc1"), Token("pat1")}

OrderPatientIds == {"pat1", "pat2"}

OrderCreate == \E u \in OrderCallers : Create(u, LifeSlot)
OrderUpdate == \E u \in OrderCallers, id \in Ids : Update(u, id, [duration |-> 45])
OrderDelete == \E u \in OrderCallers, id \in Ids : Delete(u, id)
OrderPatient ==
    \E route \in {"put", "delete"}, cred \in OrderCredentials, id \in OrderPatientIds :
        PatientRequest(route, cred, id, IF route = "put" THEN [firstName |-> "Cyd"] ELSE NoBody)

NextOrder == OrderCreate \/ OrderUpdate \/ OrderDelete \/ OrderPatient

SpecOrder == Init /\ [][NextOrder]_vars

----------------------------------------------------------------------------
(* Auth router: router.post('/register') and router.post('/login') *)

MinPassword == 8

\* Strings that isEmail() rejects.
MalformedEmails == {"not-an-email"}

\* validateRegistration: email, password of 8 characters or more, first
\* name not empty, role one of the three (lastName and phone are not part of
\* the rows of this model).
validateRegistration(body) ==
    /\ body.email \notin MalformedEmails
    /\ Len(body.password) >= MinPassword
    /\ body.firstName # ""
    /\ body.role \in Roles

\* validateLogin: email, password not empty.
validateLogin(body) ==
    /\ body.email \notin MalformedEmails
    /\ body.password # <<>>

\* The id the auth provider gives to the user it creates for an email.
NewUserId == ("new1@vg" :> "new1") @@ ("new2@vg" :> "new2")

\* authHelpers.signUp and authHelpers.signIn: `if (error) throw error;
\* return data;` - what the caller gets is the provider's data object
\* { user, session }, not a { data, error } pair.
HelperReturn(id) == [user |-> [id |-> id], session |-> "session"]

AuthResponse(op, code, body, provider, dbInsert, token) ==
    [op |-> op, code |-> code, body |-> body, provider |-> provider,
     dbInsert |-> dbInsert, token |-> token]

\* router.post('/register', validateRegistration, handler).  provider is the
\* outcome of the provider's signUp, dbInsert of the profile insert.
\*   const { data: authData, error: authError } = await authHelpers.signUp(...)
\* reads the properties data and error of what the helper returned; both are
\* undefined when it has neither, and authData.user.id then throws TypeError,
\* which the error handler answers with 500.
Register(body, provider, dbInsert) ==
    LET existingUser == \E u \in DOMAIN users : users[u].email = body.email
        known == \E u \in DOMAIN auth : auth[u].email = body.email
        id == NewUserId[body.email]
        ret == HelperReturn(id)
        created == (id :> [email |-> body.email, password |-> body.password]) @@ auth
        userProfile == [role |-> body.role, isActive |-> TRUE, email |-> body.email]
    IN  /\ UNCHANGED <<appts, nextId, proc, res, patients, pres, gres, pager>>
        /\ IF ~validateRegistration(body)
           THEN /\ ares' = AuthResponse("register", 400, body, provider, dbInsert, NoToken)
                /\ UNCHANGED <<users, auth>>
           ELSE IF existingUser
           THEN /\ ares' = AuthResponse("register", 400, body, provider, dbInsert, NoToken)
                /\ UNCHANGED <<users, auth>>
           ELSE IF provider = DbError \/ known
           THEN \* the helper throws the provider's error, which carries its status
                /\ ares' = AuthResponse("register", 400, body, provider, dbInsert, NoToken)
                /\ UNCHANGED <<users, auth>>
           ELSE IF Has(ret, "error")
           THEN /\ ares' = AuthResponse("register", 400, body, provider, dbInsert, NoToken)
                /\ auth' = created
                /\ UNCHANGED users
           ELSE IF ~Has(ret, "data")
           THEN /\ ares' = AuthResponse("register", 500, body, provider, dbInsert, NoToken)
                /\ auth' = created
                /\ UNCHANGED users
           ELSE IF dbInsert = DbError
           THEN \* supabase.auth.admin.deleteUser(authData.user.id)
                /\ ares' = AuthResponse("register", 400, body, provider, dbInsert, NoToken)
                /\ UNCHANGED <<users, auth>>
           ELSE /\ ares' = AuthResponse("register", 201, body, provider, dbInsert,
                                        IssuedToken(ret.data.user.id, body.role))
                /\ auth' = created
                /\ users' = (ret.data.user.id :> userProfile) @@ users

\* router.post('/login', validateLogin, handler)
Login(body, provider) ==
    LET match == {u \in DOMAIN auth :
                     auth[u].email = body.email /\ auth[u].password = body.password}
        ret == HelperReturn(CHOOSE u \in match : TRUE)
    IN  /\ UNCHANGED <<appts, nextId, users, proc, res, patients, pres, gres, pager, auth>>
        /\ ares' =
             IF ~validateLogin(body)
             THEN AuthResponse("login", 400, body, provider, DbOk, NoToken)
             ELSE IF provider = DbError \/ match = {}
             THEN AuthResponse("login", 400, body, provider, DbOk, NoToken)
             ELSE IF ~Has(ret, "data")
             THEN AuthResponse("login", 500, body, provider, DbOk, NoToken)
             ELSE IF ret.data.user.id \notin DOMAIN users
             THEN AuthResponse("login", 404, body, provider, DbOk, NoToken)
             ELSE IF ~users[ret.data.user.id].isActive
             THEN AuthResponse("login", 400, body, provider, DbOk, NoToken)
             ELSE AuthResponse("login", 200, body, provider, DbOk,
                               IssuedToken(ret.data.user.id, users[ret.data.user.id].role))

----------------------------------------------------------------------------
(* SpecReg: register and login requests. *)

RegEmails == {"new1@vg", "new2@vg", "doc1@vg", "not-an-email"}

ShortPassword == <<"s", "h", "o", "r", "t">>

RegPasswords == {StoredPassword, ShortPassword}

RegRoles == {"patient", "doctor"}

RegRegister ==
    \E e \in RegEmails, pw \in RegPasswords, role \in RegRoles,
       provider \in DbOutcomes, dbInsert \in DbOutcomes :
        Register([email |-> e, password |-> pw, firstName |-> "Eve", role |-> role],
                 provider, dbInsert)
RegLogin ==
    \E e \in RegEmails, pw \in RegPasswords, provider \in DbOutcomes :
        Login([email |-> e, password |-> pw], provider)

NextReg == RegRegister \/ RegLogin

SpecReg == Init /\ [][NextReg]_vars

----------------------------------------------------------------------------
(* Notions of the scheduling contract *)

ActiveSet == {"scheduled", "confirmed", "in-progress"}
Terminal == {"completed", "cancelled", "no-show"}

Transitions ==
    {<<"scheduled", "confirmed">>, <<"scheduled", "cancelled">>, <<"scheduled", "no-show">>,
     <<"confirmed", "in-progress">>, <<"confirmed", "cancelled">>, <<"confirmed", "no-show">>,
     <<"in-progress", "completed">>, <<"in-progress", "cancelled">>}

EndOf(a) == a.appointmentTime + a.duration

SameDay(a, b) == a.doctorId = b.doctorId /\ a.appointmentDate = b.appointmentDate

\* [time, time+duration) of a and b intersect, same doctor and date.
Intersects(a, b) ==
    /\ SameDay(a, b)
    /\ a.appointmentTime < EndOf(b)
    /\ b.appointmentTime < EndOf(a)

\* One starts exactly when the other ends.
Adjacent(a, b) ==
    /\ SameDay(a, b)
    /\ (EndOf(a) = b.appointmentTime \/ EndOf(b) = a.appointmentTime)

SlotOf(a) == <<a.doctorId, a.appointmentDate, a.appointmentTime, a.duration>>

\* The active rows other than row `self` that intersect the interval of c.
Overlapping(table, self, c) ==
    {j \in DOMAIN table \ {self} :
        table[j].status \in ActiveSet /\ Intersects(table[j], c)}

Touching(table, self, c) ==
    {j \in DOMAIN table \ {self} :
        table[j].status \in ActiveSet /\ Adjacent(table[j], c)}

----------------------------------------------------------------------------
(* Claims *)

\* C1: Invariant I1 - no two stored appointments of one doctor with active
\* status have intersecting intervals on the same date.
C1_NoDoubleBooking ==
    \A i \in DOMAIN appts : appts[i].status \in ActiveSet =>
        Overlapping(appts, i, appts[i]) = {}

\* Two create requests were in flight together: neither conflict query read
\* the table after the other request's insert.
Concurrent(p, q) ==
    /\ proc[p].readAt <= proc[q].id
    /\ proc[q].readAt <= proc[p].id

\* C2: of two concurrent create requests for one doctor with intersecting
\* intervals at most one inserts; the other fails.
C2_AtMostOneConcurrentInsert ==
    \A p \in DOMAIN proc : \A q \in DOMAIN proc \ {p} :
        (/\ proc[p].code = 201 /\ proc[q].code = 201
         /\ Concurrent(p, q))
        => ~Intersects(proc[p].data, proc[q].data)

\* C3: a create whose interval intersects a stored active appointment of the
\* same doctor and date is rejected and inserts nothing.
C3_OverlappingCreateRejected ==
    (/\ res.op = "create"
     /\ validateAppointmentData(res.body)
     /\ Overlapping(appts, res.id, res.body) # {})
    => (res.code >= 400 /\ res.id \notin DOMAIN appts)

C5_StatusFollowsTable ==
    [][res'.op = "status" =>
        \A id \in DOMAIN appts \cap DOMAIN appts' :
            /\ appts'[id].status # appts[id].status =>
                  <<appts[id].status, appts'[id].status>> \in Transitions
            /\ (/\ res'.id = id
                /\ res'.body.status # appts[id].status
                /\ <<appts[id].status, res'.body.status>> \notin Transitions) =>
                  (res'.code >= 400 /\ appts'[id].status = appts[id].status)]_vars

\* C6: terminal statuses are absorbing - no status update or full-field
\* update changes the status of a completed, cancelled or no-show appointment.
C6_TerminalAbsorbing ==
    [][\A id \in DOMAIN appts \cap DOMAIN appts' :
          appts[id].status \in Terminal => appts'[id].status = appts[id].status]_vars

\* C7: a full-field update that changes doctor, date, time or duration of a
\* non-terminal appointment writes only when the new interval intersects no
\* other active appointment of the target doctor.
C7_UpdateRechecksConflicts ==
    [][\A id \in DOMAIN appts \cap DOMAIN appts' :
          (/\ res'.op = "update" /\ res'.id = id
           /\ appts[id].status \notin Terminal
           /\ SlotOf(appts'[id]) # SlotOf(appts[id]))
          => Overlapping(appts', id, appts'[id]) = {}]_vars

\* C8: every appointment create inserts has status scheduled and createdBy
\* equal to the caller's id, whatever the body carries.
C8_CreatedScheduledByCaller ==
    (res.op = "create" /\ res.code = 201)
    => (/\ res.id \in DOMAIN appts
        /\ appts[res.id].status = "scheduled"
        /\ appts[res.id].createdBy = res.userId)

C8_Witness ==
    /\ res.op = "create" /\ res.code = 201
    /\ Has(res.body, "status") /\ res.body.status # "scheduled"
    /\ Has(res.body, "createdBy") /\ res.body.createdBy # res.userId
    /\ appts[res.id].status = "scheduled"

\* The caller of the last patient request is an authenticated principal.
Authenticated == pres.route # "none" /\ pres.user # Absent

\* C9: a patient principal P1 asking for a patient resource P2 # P1 is
\* answered Forbidden and the handler does not touch the store.
C9_ForeignPatientForbidden ==
    (/\ Authenticated
     /\ pres.route \in GatedRoutes
     /\ users[pres.user].role = "patient"
     /\ pres.user # pres.patientId)
    => (pres.code = 403 /\ ~pres.handler)

C9_Witness ==
    /\ Authenticated
    /\ pres.route \in GatedRoutes
    /\ users[pres.user].role = "patient"
    /\ pres.user # pres.patientId
    /\ pres.patientId \in DOMAIN patients
    /\ pres.code = 403

\* authorizeOwnership of the contract.
OwnershipAllows(role, userId, patientId) ==
    \/ role \in {"admin", "doctor"}
    \/ (role = "patient" /\ userId = patientId)

\* C10: on GET and PUT /patients/:patientId the gate lets an authenticated
\* caller through exactly when the caller is admin or doctor, or is the
\* patient the route names.
C10_OwnershipGateExact ==
    (Authenticated /\ pres.route \in {"get", "put"})
    => ((pres.gate = 0) <=>
            OwnershipAllows(users[pres.user].role, pres.user, pres.patientId))

----------------------------------------------------------------------------
(* Claims on the gates *)

\* The roles a route's role gate admits.
GateRoles(route) ==
    IF RouteChain[route] = <<"requireDoctor">> THEN DoctorRoles
    ELSE IF RouteChain[route] = <<"requireAdmin">> THEN AdminRoles
    ELSE {}

RoleGatedRoutes == {r \in DOMAIN RouteChain : GateRoles(r) # {}}
OwnershipGatedRoutes == {r \in DOMAIN RouteChain : RouteChain[r] = <<"canAccessPatient">>}

\* The last request went to a route of RouteChain with a verified credential.
Verified == gres.route \in DOMAIN RouteChain /\ gres.user # Absent

GateAllows(route, role, userId, patientId) ==
    IF route \in RoleGatedRoutes THEN role \in GateRoles(route)
    ELSE role \in DoctorRoles \/ (role = "patient" /\ userId = patientId)

\* C12: when the stored role differs from the role the token was signed
\* with, a request to a role-gated or ownership-gated route is authorized
\* by the stored role.
C12_StoredRoleDecides ==
    (/\ Verified
     /\ gres.route \in RoleGatedRoutes \cup OwnershipGatedRoutes
     /\ gres.cred.role # gres.profile.role)
    => (gres.handler <=>
            GateAllows(gres.route, gres.profile.role, gres.user, gres.patientId))

\* C13: a request whose token belongs to a deactivated profile reaches no
\* handler.
C13_DeactivatedRejected ==
    (/\ gres.route \in DOMAIN RouteChain
     /\ gres.cred.kind = "valid"
     /\ gres.cred.userId \in DOMAIN users
     /\ ~gres.profile.isActive)
    => (~gres.handler /\ gres.code # 0)

\* C14: a missing or invalid credential is answered 401, and 403 is
\* answered only to a verified credential.
C14_CredentialFailureIs401 ==
    gres.route \in DOMAIN RouteChain
    => /\ gres.cred.kind \in {"none", "invalid"} => gres.code = 401
       /\ gres.code = 403 => gres.user # Absent

\* Routes whose handlers read or write appointments or medical records.
RecordRoutes ==
    {"apptList", "apptDelete", "recordList", "doctorAppointments", "doctorSchedule",
     "doctorRecords", "clinicAppointments", "patientRecords"}

\* C15: the handler of a route on appointments or medical records runs only
\* for a doctor or admin, or for a patient asking for their own data.
C15_RecordRoutesGated ==
    (gres.route \in RecordRoutes /\ gres.handler)
    => /\ gres.user # Absent
       /\ \/ gres.profile.role \in DoctorRoles
          \/ /\ gres.route \in OwnershipGatedRoutes
             /\ gres.profile.role = "patient"
             /\ gres.user = gres.patientId

\* C16: a row leaves the appointments table only by a delete request of an
\* admin.
C16_OnlyAdminRemoves ==
    [][(\E id \in DOMAIN appts : id \notin DOMAIN appts')
       => (res'.op = "delete" /\ users[res'.userId].role = "admin")]_vars

\* C17: optionalAuth sends no error response and calls next exactly once for
\* every credential, and attaches the principal exactly when the token
\* verifies and the user lookup succeeds.
C17_OptionalAuthNeverFails ==
    gres.route = "optional"
    => /\ gres.code = 0
       /\ gres.next = 1
       /\ gres.handler
       /\ (gres.user # Absent) <=>
              (/\ gres.cred.kind = "valid"
               /\ gres.lookup = "ok"
               /\ gres.cred.userId \in DOMAIN auth)
       /\ gres.user # Absent => gres.user = gres.cred.userId

C17_Witness ==
    /\ gres.route = "optional"
    /\ gres.cred.kind = "valid"
    /\ gres.cred.userId \in DOMAIN auth
    /\ gres.lookup = "throws"
    /\ gres.code = 0
    /\ gres.next = 1
    /\ gres.user = Absent

----------------------------------------------------------------------------
(* Claims on the list endpoints *)

\* The client has the answer to a page request that passed the gate and
\* the datastore.
Listed == pager.phase \in {"walking", "done"}

\* C18: a client that reads pages 1..totalPages of an unchanged table has
\* received totalCount items in all.
C18_PagesSumToTotal ==
    pager.phase = "done" => pager.sum = pager.last.totalCount

\* The least number of pages of the given size that hold total rows.
PagesFor(total, size) ==
    CHOOSE k \in 0..total : k * size >= total /\ (k = 0 \/ (k - 1) * size < total)

\* C19: a list response reports the page asked for, totalPages as the
\* ceiling of totalCount / limit, hasNext and hasPrev accordingly; its window
\* starts at (page - 1) * limit and holds at most limit rows; with limit 20
\* and 45 rows there are 3 pages and page 3 holds 5 items, with no next page
\* and a previous one.
C19_PageWindow ==
    Listed =>
      LET r == pager.last
      IN  /\ r.currentPage = pager.page
          /\ r.totalPages = PagesFor(r.totalCount, r.limit)
          /\ r.hasNext <=> (pager.page < r.totalPages)
          /\ r.hasPrev <=> (pager.page > 1)
          /\ Len(r.items) <= r.limit
          /\ r.items # <<>> => r.items[1] = pager.rows[(pager.page - 1) * r.limit + 1]
          /\ (r.limit = 20 /\ r.totalCount = 45) =>
                /\ r.totalPages = 3
                /\ pager.page = 3 => (Len(r.items) = 5 /\ ~r.hasNext /\ r.hasPrev)

\* The sort fields the contract allows.
SortFields == {"appointmentDate", "appointmentTime", "createdAt", "status"}

\* C20: a list request whose sortBy is not an allowed field is answered 400
\* without a datastore call.
C20_InvalidSortRejectedEarly ==
    (/\ pager.phase \notin {"none", "idle", "denied"}
     /\ Has(pager.query, "sortBy")
     /\ pager.query.sortBy \notin SortFields)
    => (pager.last.code = 400 /\ pager.last.calls = 0)

----------------------------------------------------------------------------
(* Claims on the schedule views, error outcomes, registration and frames *)

\* The appointments of a date range and doctor filter with active status.
ScheduleFor(table, from, to, query) ==
    {id \in DOMAIN table :
        /\ DayOf(table[id].appointmentDate) >= from
        /\ DayOf(table[id].appointmentDate) <= to
        /\ table[id].status \in ActiveSet
        /\ DoctorFilter(table[id], query)}

\* The last day of the range a schedule request asks for.
RangeEnd(r) ==
    IF r.op = "today" THEN DayOf(r.today)
    ELSE DayOf(r.today) + (IF Has(r.body, "days") THEN DigitsValue(r.body.days)
                            ELSE DefaultDays)

\* C21: a schedule query returns exactly the appointments of its date range
\* and doctor filter whose status is scheduled, confirmed or in-progress,
\* ordered by date and then time ascending, and leaves the store as it was.
C21_ScheduleExact ==
    [][(res'.op \in {"today", "upcoming"} /\ res'.code = 200) =>
          LET data == res'.data
          IN  /\ appts' = appts
              /\ {data[i] : i \in DOMAIN data}
                    = ScheduleFor(appts, DayOf(res'.today), RangeEnd(res'), res'.body)
              /\ \A i, j \in DOMAIN data : i # j => data[i] # data[j]
              /\ \A i \in DOMAIN data : \A j \in DOMAIN data :
                    i < j => DateTimeLeq(appts[data[i]], appts[data[j]])]_vars

\* C22: a create by a doctor or admin with a valid body whose interval
\* intersects a stored active appointment of the same doctor and date is
\* answered 409.
C22_OverlapAnswered409 ==
    (/\ res.op = "create"
     /\ res.userId \in DOMAIN users
     /\ users[res.userId].role \in DoctorRoles
     /\ validateAppointmentData(res.body)
     /\ Overlapping(appts, res.id, res.body) # {})
    => res.code = 409

\* C23: a request one of whose datastore calls returned an error is
\* answered with a 5xx status.
C23_DatastoreErrorIs5xx ==
    Has(res, "failed") => res.code >= 500

\* The caller of the appointment request served by a step is a doctor or admin.
CallerIsDoctor(r) == r.userId \in DOMAIN users /\ users[r.userId].role \in DoctorRoles

\* C26: every stored appointment has a duration of 15 to 240 minutes; a
\* create or full-field update with duration 14 or 241 is answered 400 and
\* writes nothing; with 15 or 240 it is accepted.
C26_DurationInRange ==
    [][/\ \A id \in DOMAIN appts' : appts'[id].duration \in 15..240
       /\ (/\ res'.op \in {"create", "update"}
           /\ CallerIsDoctor(res')
           /\ Has(res'.body, "duration")
           /\ res'.body.duration \in {14, 241})
          => (res'.code = 400 /\ appts' = appts)
       /\ (/\ res'.op \in {"create", "update"}
           /\ CallerIsDoctor(res')
           /\ Has(res'.body, "duration")
           /\ res'.body.duration \in {15, 240}
           /\ ~Has(res', "failed"))
          => \/ res'.op = "create" /\ res'.code = 201
                /\ appts'[res'.id].duration = res'.body.duration
             \/ res'.op = "update" /\ res'.code = 200
                /\ appts'[res'.id].duration = res'.body.duration
             \/ res'.op = "update" /\ res'.code = 404 /\ res'.id \notin DOMAIN appts]_vars

C26_Witness ==
    /\ res.op = "update"
    /\ CallerIsDoctor(res)
    /\ Has(res.body, "duration") /\ res.body.duration = 241
    /\ res.code = 400
    /\ \E id \in DOMAIN appts : appts[id].duration = 240
    /\ \E id \in DOMAIN appts : appts[id].duration = 15

\* C29: a create request that fails leaves the appointments table as it was.
C29_FailedCreateWritesNothing ==
    [][(res'.op = "create" /\ res'.code # 201) => appts' = appts]_vars

C29_Witness ==
    /\ res.op = "create"
    /\ Has(res, "failed") /\ res.failed = "insert"
    /\ res.code = 400
    /\ appts # <<>>

\* C30: a full-field update and a status update leave createdBy and
\* createdAt of the appointment as they were; a status update changes no
\* field but status and updatedAt.
C30_ServerFieldsKept ==
    [][\A id \in DOMAIN appts \cap DOMAIN appts' :
          (res'.op \in {"update", "status"} /\ res'.id = id) =>
             /\ appts'[id].createdBy = appts[id].createdBy
             /\ appts'[id].createdAt = appts[id].createdAt
             /\ res'.op = "status" =>
                   /\ DOMAIN appts'[id] = DOMAIN appts[id]
                   /\ \A f \in DOMAIN appts[id] \ {"status", "updatedAt"} :
                         appts'[id][f] = appts[id][f]]_vars

\* C24: a successful DELETE /patients/:id keeps the row, with isActive
\* false and deletedAt set; its other fields (updatedAt aside), the other
\* patients and the appointments are unchanged; a doctor or admin still
\* reads the deleted patient by id.
C24_SoftDeleteKeepsHistory ==
    [][/\ (pres'.route = "delete" /\ pres'.code = 200) =>
             /\ pres'.patientId \in DOMAIN patients
             /\ DOMAIN patients' = DOMAIN patients
             /\ patients'[pres'.patientId].isActive = FALSE
             /\ Has(patients'[pres'.patientId], "deletedAt")
             /\ \A f \in DOMAIN patients[pres'.patientId]
                        \ {"isActive", "deletedAt", "updatedAt"} :
                   patients'[pres'.patientId][f] = patients[pres'.patientId][f]
             /\ \A j \in DOMAIN patients \ {pres'.patientId} : patients'[j] = patients[j]
             /\ appts' = appts
       /\ (/\ pres'.route = "get"
           /\ pres'.user # Absent
           /\ users[pres'.user].role \in DoctorRoles
           /\ pres'.patientId \in DOMAIN patients'
           /\ ~patients'[pres'.patientId].isActive)
          => (pres'.code = 200 /\ pres'.handler)]_vars

\* C27: a step that writes an appointment row is the request of a caller
\* whose stored role passes the role gate, a step that writes a patient row
\* is the request of a verified caller whom the route's gate admits, and a
\* request answered 401 or 403 writes nothing.
C27_GateBeforeWrite ==
    [][/\ appts' # appts =>
             /\ CallerIsDoctor(res')
             /\ res'.code \notin {401, 403}
       /\ patients' # patients =>
             /\ pres'.user # Absent
             /\ pres'.code \notin {401, 403}
             /\ IF pres'.route = "delete"
                THEN users[pres'.user].role \in DoctorRoles
                ELSE OwnershipAllows(users[pres'.user].role, pres'.user, pres'.patientId)
       /\ res'.code \in {401, 403} => appts' = appts
       /\ (pres'.route # "none" /\ pres'.code \in {401, 403}) => patients' = patients]_vars

C27_Witness ==
    /\ res.op = "create" /\ res.code = 403
    /\ appts # <<>>
    /\ pres.route = "delete" /\ pres.code = 200
    /\ ~patients[pres.patientId].isActive

\* C25: a register request with a valid body and an email no stored user
\* has, served by a working provider and datastore, creates the auth user and
\* the users row and is answered 201 with a token; a login with the correct
\* credentials of a user with an active profile is answered with a token.
C25_RegisterThenLogin ==
    [][/\ (/\ ares'.op = "register"
           /\ validateRegistration(ares'.body)
           /\ \A u \in DOMAIN users : users[u].email # ares'.body.email
           /\ \A u \in DOMAIN auth : auth[u].email # ares'.body.email
           /\ ares'.provider = DbOk /\ ares'.dbInsert = DbOk)
          => /\ ares'.code = 201
             /\ ares'.token.kind = "valid"
             /\ \E u \in DOMAIN auth' \cap DOMAIN users' :
                   /\ auth'[u].email = ares'.body.email
                   /\ users'[u].email = ares'.body.email
                   /\ users'[u].role = ares'.body.role
                   /\ ares'.token.userId = u
       /\ (/\ ares'.op = "login"
           /\ ares'.provider = DbOk
           /\ \E u \in DOMAIN auth \cap DOMAIN users :
                 /\ auth[u].email = ares'.body.email
                 /\ auth[u].password = ares'.body.password
                 /\ users[u].isActive)
          => (ares'.code = 200 /\ ares'.token.kind = "valid")]_vars

\* C28: after every register request each user of the auth provider has a
\* users profile row.
C28_NoAuthUserWithoutProfile ==
    \A u \in DOMAIN auth : u \in DOMAIN users

====
